---- MODULE Spec2Model ----
(***************************************************************************)
(* Model of scripts/manifest.py: the manifest reconciliation tool.         *)
(*                                                                         *)
(* Identifiers are opaque strings in the program; here they are small      *)
(* integers.  A manifest list is read through set(...) at every use        *)
(* (manifest.py:136-138, 192-194, 211, 229-235), so a persisted list is    *)
(* modelled by the set of its elements.  An integer names the same         *)
(* identifier in whichever list it appears.  The manifest document is      *)
(* taken to carry its [meta] table, as load_manifest's template does.      *)
(***************************************************************************)
EXTENDS Integers, FiniteSets, Sequences, TLC

MaxPkg == 2
MaxFlatpak == 1
MaxGroup == 1
MaxPlanFlatpak == 2
MaxClock == 2
MaxWriter == 2
MaxHandler == 2
MaxHost == 1
MaxReport == 1

Pkgs == 1..MaxPkg
Flatpaks == 1..MaxFlatpak
Groups == 1..MaxGroup
PlanFlatpaks == 1..MaxPlanFlatpak
Writers == 1..MaxWriter
Handlers == 1..MaxHandler
Hosts == 1..MaxHost
Reports == 1..MaxReport

VARIABLES
    file,    \* manifests/<host>.toml as persisted
    sys,     \* what is installed: user-installed packages, flatpak apps
    tools,   \* whether each ecosystem's query tool is present and answers
    run,     \* what the command just run computed, printed, invoked, returned
    now,     \* the system clock read by datetime.now(timezone.utc)
    pending, \* per writer: a pull that has loaded and not yet saved
    status_store, \* collector: hostname -> latest status document (0: none)
    status_lock,  \* collector: the thread holding the lock, or Unlocked
    thread,       \* collector: the main thread and each request handler
    data_dir      \* collector: DATA_DIR/<hostname>.json (0: no file)

vars == <<file, sys, tools, run, now, pending,
          status_store, status_lock, thread, data_dir>>

\* The collector's state (monitoring/collector/server.py), which the
\* manifest tool never touches.
server == <<status_store, status_lock, thread, data_dir>>

\* The state of manifest.py, which the collector never touches.
manifest_tool == <<file, sys, tools, run, now, pending>>

----------------------------------------------------------------------------
(* Sorting: sorted(S) as the code uses it for printing and invoking.       *)

Min(S) == CHOOSE x \in S : \A y \in S : x <= y

RECURSIVE sorted(_)
sorted(S) == IF S = {} THEN <<>> ELSE <<Min(S)>> \o sorted(S \ {Min(S)})

Range(s) == {s[i] : i \in 1..Len(s)}

----------------------------------------------------------------------------
(* ManifestStore                                                           *)

\* exists: the host's file is there; parses: tomllib.load accepts it;
\* updated: meta.updated.
Template ==
    [exists |-> FALSE, parses |-> TRUE, updated |-> 0,
     system |-> {}, optional |-> {}, groups |-> {},
     flatpaks |-> {}, excluded |-> {}]

\* A file that tomllib.load rejects; none of its content is available.
Malformed == [Template EXCEPT !.exists = TRUE, !.parses = FALSE]

\* Variant: an unparsable document is treated as an empty one.
load_fails_never(f) == FALSE

\* load_manifest raises: tomllib.load on a document that does not parse.
load_fails(f) == f.exists /\ ~f.parses

\* load_manifest: the parsed document, or the empty template when absent.
load_manifest(f, t) == IF f.exists THEN f ELSE [Template EXCEPT !.updated = t]

\* Variant: meta.updated is written as it was loaded.
save_manifest_unstamped(m, t) == [m EXCEPT !.exists = TRUE, !.parses = TRUE]

\* save_manifest: meta.updated is set to the clock, the document written.
save_manifest(m, t) == [m EXCEPT !.exists = TRUE, !.parses = TRUE, !.updated = t]

----------------------------------------------------------------------------
(* StateProbe                                                              *)

\* get_system_state: a failing or absent tool leaves that set empty.  A
\* failing group query is taken to print nothing on stdout.
get_system_state(s, t) ==
    [packages |-> IF t.dnf THEN s.pkgs ELSE {},
     groups |-> IF t.groups THEN s.groups ELSE {},
     flatpaks |-> IF t.flatpak THEN s.flatpaks ELSE {}]

\* The ecosystems get_system_state prints a warning for (manifest.py:99);
\* the group and flatpak handlers are a bare pass.
probe_diagnostics(t) == IF t.dnf THEN {} ELSE {"packages"}

----------------------------------------------------------------------------
(* ReconciliationEngine: the drift sets                                    *)

declared_pkgs(m) == m.system \cup m.optional

\* Variant: the operands of the difference exchanged.
status_missing_swapped(m, st) == st.packages \ declared_pkgs(m)

status_missing(m, st) == declared_pkgs(m) \ st.packages

\* Variant: the exclusion list is not subtracted.
status_extra_unexcluded(m, st) == st.packages \ declared_pkgs(m)

\* Variant: the exclusion list is taken off the declared set instead.
status_extra_misplaced(m, st) == st.packages \ (declared_pkgs(m) \ m.excluded)

status_extra(m, st) == (st.packages \ declared_pkgs(m)) \ m.excluded

status_missing_flatpaks(m, st) == m.flatpaks \ st.flatpaks

status_extra_flatpaks(m, st) == st.flatpaks \ m.flatpaks

status_matches(missing, extra, missing_flatpaks) ==
    missing = {} /\ extra = {} /\ missing_flatpaks = {}

\* Variant: any drift at all, extra included, is reported as failure.
status_exit_strict(missing, extra, missing_flatpaks) ==
    IF status_matches(missing, extra, missing_flatpaks) THEN 0 ELSE 1

status_exit(missing, extra, missing_flatpaks) ==
    IF status_matches(missing, extra, missing_flatpaks) THEN 0
    ELSE IF missing # {} \/ missing_flatpaks # {} THEN 1 ELSE 0

\* Variant: the exclusion list is not consulted.
pull_new_packages_unexcluded(m, st) == st.packages \ (m.system \cup m.optional)

\* Variant: every known identifier that is not declared counts as new.
pull_new_packages_unobserved(m, st) == (Pkgs \ (m.system \cup m.optional)) \ m.excluded

pull_new_packages(m, st) == (st.packages \ (m.system \cup m.optional)) \ m.excluded

\* Variant: the exclusion list is applied to flatpaks too.
pull_new_flatpaks_excluding(m, st) == (st.flatpaks \ m.flatpaks) \ m.excluded

pull_new_flatpaks(m, st) == st.flatpaks \ m.flatpaks

\* Variant: optional is replaced by the new packages instead of merged.
pull_manifest_replacing(m, st) ==
    LET new_packages == pull_new_packages(m, st)
        new_flatpaks == pull_new_flatpaks(m, st)
    IN  [m EXCEPT
           !.optional = IF new_packages # {} THEN new_packages ELSE @,
           !.flatpaks = IF new_flatpaks # {} THEN m.flatpaks \cup new_flatpaks ELSE @]

\* Variant: new packages are enforced (system) as well as tracked.
pull_manifest_enforcing(m, st) ==
    LET new_packages == pull_new_packages(m, st)
        new_flatpaks == pull_new_flatpaks(m, st)
    IN  [m EXCEPT
           !.system = IF new_packages # {} THEN m.system \cup new_packages ELSE @,
           !.optional = IF new_packages # {} THEN m.optional \cup new_packages ELSE @,
           !.flatpaks = IF new_flatpaks # {} THEN m.flatpaks \cup new_flatpaks ELSE @]

\* Variant: new flatpaks are reported and not merged.
pull_manifest_packages_only(m, st) ==
    LET new_packages == pull_new_packages(m, st)
    IN  [m EXCEPT
           !.optional = IF new_packages # {} THEN m.optional \cup new_packages ELSE @]

pull_manifest(m, st) ==
    LET new_packages == pull_new_packages(m, st)
        new_flatpaks == pull_new_flatpaks(m, st)
    IN  [m EXCEPT
           !.optional = IF new_packages # {} THEN m.optional \cup new_packages ELSE @,
           !.flatpaks = IF new_flatpaks # {} THEN m.flatpaks \cup new_flatpaks ELSE @]

\* Variant: optional packages are in the install scope, as in status.
apply_missing_declared(m, st) == declared_pkgs(m) \ st.packages

\* Variant: the observed state is not subtracted.
apply_missing_all(m, st) == m.system

apply_missing(m, st) == m.system \ st.packages

apply_missing_flatpaks(m, st) == m.flatpaks \ st.flatpaks

----------------------------------------------------------------------------
(* Executor: the installer invocations of one apply run, in order.         *)

dnf_call(missing) == [tool |-> "dnf", args |-> sorted(missing)]

flatpak_call(f) == [tool |-> "flatpak", args |-> <<f>>]

\* Variant: the flatpaks are installed by one batched invocation.
flatpak_calls_batched(missing_flatpaks) ==
    IF missing_flatpaks = {} THEN <<>>
    ELSE <<[tool |-> "flatpak", args |-> sorted(missing_flatpaks)]>>

flatpak_calls(missing_flatpaks) ==
    [i \in 1..Cardinality(missing_flatpaks) |-> flatpak_call(sorted(missing_flatpaks)[i])]

\* Variant: flatpaks are installed only when no package is missing (elif).
apply_plan_elif(missing, missing_flatpaks) ==
    IF missing # {} THEN <<dnf_call(missing)>> ELSE flatpak_calls(missing_flatpaks)

\* Variant: the flatpaks are installed before the packages.
apply_plan_flatpaks_first(missing, missing_flatpaks) ==
    flatpak_calls(missing_flatpaks)
        \o (IF missing # {} THEN <<dnf_call(missing)>> ELSE <<>>)

apply_plan(missing, missing_flatpaks) ==
    (IF missing # {} THEN <<dnf_call(missing)>> ELSE <<>>)
        \o flatpak_calls(missing_flatpaks)

\* Variant: only the package installer is guarded by dry_run.
apply_calls_unguarded(dry_run, missing, missing_flatpaks) ==
    IF dry_run THEN flatpak_calls(missing_flatpaks)
    ELSE apply_plan(missing, missing_flatpaks)

\* The invocations a run sets out to make: none under dry_run.
apply_calls(dry_run, missing, missing_flatpaks) ==
    IF dry_run THEN <<>> ELSE apply_plan(missing, missing_flatpaks)

\* Variant: a failing invocation is not raised (check=False), the rest run.
calls_made_all(plan, fail_at) == Len(plan)

\* How many invocations are made when the fail_at-th one fails (0: none).
calls_made(plan, fail_at) == IF fail_at = 0 THEN Len(plan) ELSE fail_at

\* How many of them completed.
calls_done(plan, fail_at) == IF fail_at = 0 THEN Len(plan) ELSE fail_at - 1

\* The return code of each invocation made.
return_codes(n, fail_at) == [i \in 1..n |-> IF i = fail_at THEN 1 ELSE 0]

\* What the first n invocations of a plan install when they succeed.
installed_by(plan, n, tool) ==
    UNION {Range(plan[i].args) : i \in {j \in 1..n : plan[j].tool = tool}}

----------------------------------------------------------------------------
NoRun ==
    [cmd |-> "none", missing |-> {}, extra |-> {}, missing_flatpaks |-> {},
     extra_flatpaks |-> {}, new_packages |-> {}, new_flatpaks |-> {},
     printed_pkgs |-> <<>>, printed_flatpaks |-> <<>>, calls |-> <<>>,
     rc |-> <<>>, diagnostics |-> {}, load_error |-> FALSE,
     failed |-> FALSE, matches |-> FALSE, saved |-> FALSE, exit |-> 0]

\* The collector's threads: the main thread and the request handlers.
Main == 0

Threads == {Main} \cup Handlers

\* status_lock when no thread holds it.
Unlocked == 0 - 1

\* A thread that is not running: pc is where it stands, req what it
\* serves, left the `with status_lock` blocks still ahead of it, host and
\* data the hostname and document it carries, todo the files still to load.
Resting == [pc |-> "idle", req |-> "none", left |-> 0, host |-> 0, data |-> 0, todo |-> {}]

\* The collector is not running.
NoServer ==
    /\ status_store = [h \in Hosts |-> 0]
    /\ status_lock = Unlocked
    /\ thread = [t \in Threads |-> Resting]
    /\ data_dir = [h \in Hosts |-> 0]

\* A writer that is not inside pull.
Idle == [active |-> FALSE, manifest |-> Template, new_packages |-> {}, new_flatpaks |-> {}]

\* The documents a host's manifest file can hold, and no file at all.
ManifestsOver(systems, optionals, groupss, flatpakss, excludeds) ==
    [exists : {TRUE}, parses : {TRUE}, updated : {0},
     system : systems, optional : optionals,
     groups : groupss, flatpaks : flatpakss, excluded : excludeds]
        \cup {Template}

Systems == [pkgs : SUBSET Pkgs, flatpaks : SUBSET Flatpaks, groups : {{}}]

Probes == [dnf : BOOLEAN, flatpak : BOOLEAN, groups : {TRUE}]

\* A host reconciled for the first time: no manifest file yet.
Init ==
    /\ file = Template
    /\ sys \in Systems
    /\ tools \in Probes
    /\ run = NoRun
    /\ now = 0
    /\ pending = [w \in Writers |-> Idle]
    /\ NoServer

\* Inputs of status and pull: any manifest, any system, any probe outcome.
InitInputs ==
    /\ file \in ManifestsOver(SUBSET Pkgs, SUBSET Pkgs, SUBSET Groups, SUBSET Flatpaks, SUBSET Pkgs)
    /\ sys \in Systems
    /\ tools \in Probes
    /\ run = NoRun
    /\ now = 0
    /\ pending = [w \in Writers |-> Idle]
    /\ NoServer

\* Inputs of apply and diff: they read every manifest list but
\* excluded.packages.
InitApply ==
    /\ file \in ManifestsOver(SUBSET Pkgs, SUBSET Pkgs, SUBSET Groups, SUBSET Flatpaks, {{}})
    /\ sys \in Systems
    /\ tools \in Probes
    /\ run = NoRun
    /\ now = 0
    /\ pending = [w \in Writers |-> Idle]
    /\ NoServer

\* The uncaught exception of load_manifest ends the command (manifest.py:
\* 132, 188, 225 are the first statement of status, pull and apply).
Abort(cmd) ==
    /\ run' = [NoRun EXCEPT !.cmd = cmd, !.load_error = TRUE, !.exit = 1]
    /\ UNCHANGED <<file, sys, tools, now, pending, server>>

\* Variant: loading an absent manifest writes the template to the file.
Status_creating ==
    IF load_fails(file) THEN Abort("status")
    ELSE
    LET manifest == load_manifest(file, now)
        state == get_system_state(sys, tools)
        missing == status_missing(manifest, state)
        extra == status_extra(manifest, state)
        missing_flatpaks == status_missing_flatpaks(manifest, state)
        extra_flatpaks == status_extra_flatpaks(manifest, state)
    IN  /\ run' = [NoRun EXCEPT
                     !.cmd = "status",
                     !.diagnostics = probe_diagnostics(tools),
                     !.missing = missing,
                     !.extra = extra,
                     !.missing_flatpaks = missing_flatpaks,
                     !.extra_flatpaks = extra_flatpaks,
                     !.matches = status_matches(missing, extra, missing_flatpaks),
                     !.exit = status_exit(missing, extra, missing_flatpaks)]
        /\ file' = IF file.exists THEN file ELSE save_manifest(manifest, now)
        /\ UNCHANGED <<sys, tools, now, pending, server>>

\* status(hostname), manifest.py:130-183
Status ==
    IF load_fails(file) THEN Abort("status")
    ELSE
    LET manifest == load_manifest(file, now)
        state == get_system_state(sys, tools)
        missing == status_missing(manifest, state)
        extra == status_extra(manifest, state)
        missing_flatpaks == status_missing_flatpaks(manifest, state)
        extra_flatpaks == status_extra_flatpaks(manifest, state)
    IN  /\ run' = [NoRun EXCEPT
                     !.cmd = "status",
                     !.diagnostics = probe_diagnostics(tools),
                     !.missing = missing,
                     !.extra = extra,
                     !.missing_flatpaks = missing_flatpaks,
                     !.extra_flatpaks = extra_flatpaks,
                     !.matches = status_matches(missing, extra, missing_flatpaks),
                     !.exit = status_exit(missing, extra, missing_flatpaks)]
        /\ UNCHANGED <<file, sys, tools, now, pending, server>>

\* pull(hostname), manifest.py:186-220
Pull ==
    IF load_fails(file) THEN Abort("pull")
    ELSE
    LET manifest == load_manifest(file, now)
        state == get_system_state(sys, tools)
    IN  /\ file' = save_manifest(pull_manifest(manifest, state), now)
        /\ run' = [NoRun EXCEPT
                     !.cmd = "pull",
                     !.diagnostics = probe_diagnostics(tools),
                     !.new_packages = pull_new_packages(manifest, state),
                     !.new_flatpaks = pull_new_flatpaks(manifest, state),
                     !.saved = TRUE]
        /\ UNCHANGED <<sys, tools, now, pending, server>>

\* apply(hostname, dry_run), manifest.py:223-260.  fail_at = 0: every
\* invocation succeeds; fail_at = k: the k-th invocation returns non-zero
\* and check=True raises, which ends the run.  Any invocation may fail,
\* whatever the probe saw; a succeeding one installs all its arguments and
\* a failing one none.
Apply(dry_run) ==
    IF load_fails(file) THEN Abort(IF dry_run THEN "diff" ELSE "apply")
    ELSE
    LET manifest == load_manifest(file, now)
        state == get_system_state(sys, tools)
        missing == apply_missing(manifest, state)
        missing_flatpaks == apply_missing_flatpaks(manifest, state)
        plan == apply_calls(dry_run, missing, missing_flatpaks)
    IN  \E fail_at \in 0..Len(plan) :
          LET made == calls_made(plan, fail_at)
              done == calls_done(plan, fail_at)
          IN  /\ sys' = [sys EXCEPT
                           !.pkgs = @ \cup installed_by(plan, done, "dnf"),
                           !.flatpaks = @ \cup installed_by(plan, done, "flatpak")]
              /\ run' = [NoRun EXCEPT
                           !.cmd = IF dry_run THEN "diff" ELSE "apply",
                           !.diagnostics = probe_diagnostics(tools),
                           !.missing = missing,
                           !.missing_flatpaks = missing_flatpaks,
                           !.printed_pkgs = sorted(missing),
                           !.printed_flatpaks = sorted(missing_flatpaks),
                           !.calls = SubSeq(plan, 1, made),
                           !.rc = return_codes(made, fail_at),
                           !.failed = fail_at # 0,
                           !.exit = IF fail_at # 0 THEN 1 ELSE 0]
              /\ UNCHANGED <<file, tools, now, pending, server>>

ApplyCmd == Apply(FALSE)

DiffCmd == Apply(TRUE)

\* Time passes between commands.  run describes the step just taken, so
\* a step that is not the end of a command clears it.
Tick ==
    /\ now < MaxClock
    /\ now' = now + 1
    /\ run' = NoRun
    /\ UNCHANGED <<file, sys, tools, pending, server>>

Next == Status \/ Pull \/ ApplyCmd \/ DiffCmd \/ Tick

Spec == Init /\ [][Next]_vars

NextStatus == Status

SpecStatus == InitInputs /\ [][NextStatus]_vars

NextPull == Pull

SpecPull == InitInputs /\ [][NextPull]_vars

NextApply == ApplyCmd \/ DiffCmd

SpecApply == InitApply /\ [][NextApply]_vars

\* Inputs of the executor: enforced packages and flatpaks, with room for
\* more than one missing flatpak.
InitExec ==
    /\ file \in ManifestsOver(SUBSET Pkgs, {{}}, {{}}, SUBSET PlanFlatpaks, {{}})
    /\ sys \in [pkgs : SUBSET Pkgs, flatpaks : SUBSET PlanFlatpaks, groups : {{}}]
    /\ tools \in Probes
    /\ run = NoRun
    /\ now = 0
    /\ pending = [w \in Writers |-> Idle]
    /\ NoServer

NextExec == ApplyCmd \/ DiffCmd

SpecExec == InitExec /\ [][NextExec]_vars

\* Inputs of the probe: any installed packages, groups and flatpaks, and
\* each of the three query tools answering or not.
InitProbe ==
    /\ file \in ManifestsOver(SUBSET Pkgs, {{}}, {{}}, SUBSET Flatpaks, {{}})
    /\ sys \in [pkgs : SUBSET Pkgs, flatpaks : SUBSET Flatpaks, groups : SUBSET Groups]
    /\ tools \in [dnf : BOOLEAN, flatpak : BOOLEAN, groups : BOOLEAN]
    /\ run = NoRun
    /\ now = 0
    /\ pending = [w \in Writers |-> Idle]
    /\ NoServer

NextProbe == Status \/ Pull

SpecProbe == InitProbe /\ [][NextProbe]_vars

\* Inputs of the commands that only read the manifest; the clock has
\* moved on since the file was last stamped.
InitReadOnly ==
    /\ file \in ManifestsOver(SUBSET Pkgs, SUBSET Pkgs, {{}}, SUBSET Flatpaks, {{}})
    /\ sys \in Systems
    /\ tools \in Probes
    /\ run = NoRun
    /\ now = 1
    /\ pending = [w \in Writers |-> Idle]
    /\ NoServer

NextReadOnly == Status \/ ApplyCmd \/ DiffCmd

SpecReadOnly == InitReadOnly /\ [][NextReadOnly]_vars

\* Inputs of save_manifest: manifests stamped at time 0, pulls as the
\* clock advances.
InitClock ==
    /\ file \in ManifestsOver(SUBSET Pkgs, SUBSET Pkgs, {{}}, SUBSET Flatpaks, {{}})
    /\ sys \in Systems
    /\ tools \in Probes
    /\ run = NoRun
    /\ now = 0
    /\ pending = [w \in Writers |-> Idle]
    /\ NoServer

NextClock == Pull \/ Tick

SpecClock == InitClock /\ [][NextClock]_vars

\* Inputs of pull's flatpak merge, with room for a declared flatpak next
\* to a new one.
InitPullFlatpak ==
    /\ file \in ManifestsOver({{}}, SUBSET Pkgs, {{}}, SUBSET PlanFlatpaks, SUBSET Pkgs)
    /\ sys \in [pkgs : SUBSET Pkgs, flatpaks : SUBSET PlanFlatpaks, groups : {{}}]
    /\ tools \in Probes
    /\ run = NoRun
    /\ now = 0
    /\ pending = [w \in Writers |-> Idle]
    /\ NoServer

SpecPullFlatpak == InitPullFlatpak /\ [][NextPull]_vars

\* Inputs of a pull between two status runs: at most one enforced package,
\* any tracked and excluded ones, room for a missing flatpak next to a new
\* one.
InitPullStatus ==
    /\ file \in ManifestsOver(SUBSET {1}, SUBSET Pkgs, {{}}, SUBSET PlanFlatpaks, SUBSET Pkgs)
    /\ sys \in [pkgs : SUBSET Pkgs, flatpaks : SUBSET PlanFlatpaks, groups : {{}}]
    /\ tools \in Probes
    /\ run = NoRun
    /\ now = 0
    /\ pending = [w \in Writers |-> Idle]
    /\ NoServer

NextPullStatus == Status \/ Pull

SpecPullStatus == InitPullStatus /\ [][NextPullStatus]_vars

----------------------------------------------------------------------------
(* Several writers of one host's manifest.  pull is load_manifest, the     *)
(* probe and the merge (manifest.py:188-218), then save_manifest (220);    *)
(* another process can run between the two.                                *)

\* Variant: the save keeps the entries the file holds by now.
pull_write_merging(f, m, t) ==
    save_manifest([m EXCEPT !.system = @ \cup f.system,
                            !.optional = @ \cup f.optional,
                            !.flatpaks = @ \cup f.flatpaks], t)

\* What save_manifest leaves on disk when the file holds f by now:
\* open(path, "wb") truncates it.
pull_write(f, m, t) == save_manifest(m, t)

PullLoad(w) ==
    /\ ~pending[w].active
    /\ ~load_fails(file)
    /\ LET manifest == load_manifest(file, now)
           state == get_system_state(sys, tools)
       IN  pending' = [pending EXCEPT ![w] =
                         [active |-> TRUE,
                          manifest |-> pull_manifest(manifest, state),
                          new_packages |-> pull_new_packages(manifest, state),
                          new_flatpaks |-> pull_new_flatpaks(manifest, state)]]
    /\ run' = NoRun
    /\ UNCHANGED <<file, sys, tools, now, server>>

PullSave(w) ==
    /\ pending[w].active
    /\ file' = pull_write(file, pending[w].manifest, now)
    /\ pending' = [pending EXCEPT ![w] = Idle]
    /\ run' = [NoRun EXCEPT
                 !.cmd = "pull",
                 !.diagnostics = probe_diagnostics(tools),
                 !.new_packages = pending[w].new_packages,
                 !.new_flatpaks = pending[w].new_flatpaks,
                 !.saved = TRUE]
    /\ UNCHANGED <<sys, tools, now, server>>

\* The manifest is edited outside the tool: an identifier is added to
\* packages.system.
Edit(p) ==
    /\ file.parses
    /\ p \notin file.system
    /\ file' = [file EXCEPT !.exists = TRUE, !.system = @ \cup {p}]
    /\ run' = NoRun
    /\ UNCHANGED <<sys, tools, now, pending, server>>

InitWriters ==
    /\ file = Template
    /\ sys \in [pkgs : SUBSET {1}, flatpaks : {{}}, groups : {{}}]
    /\ tools = [dnf |-> TRUE, flatpak |-> TRUE, groups |-> TRUE]
    /\ run = NoRun
    /\ now = 0
    /\ pending = [w \in Writers |-> Idle]
    /\ NoServer

NextWriters ==
    \/ \E w \in Writers : PullLoad(w)
    \/ \E w \in Writers : PullSave(w)
    \/ \E p \in Pkgs : Edit(p)

SpecWriters == InitWriters /\ [][NextWriters]_vars

\* Inputs of load_manifest: a manifest, no file, or a file that does not
\* parse.
InitMalformed ==
    /\ file \in ManifestsOver(SUBSET Pkgs, {{}}, {{}}, SUBSET Flatpaks, {{}}) \cup {Malformed}
    /\ sys \in Systems
    /\ tools \in Probes
    /\ run = NoRun
    /\ now = 1
    /\ pending = [w \in Writers |-> Idle]
    /\ NoServer

NextMalformed == Status \/ Pull \/ ApplyCmd \/ DiffCmd

SpecMalformed == InitMalformed /\ [][NextMalformed]_vars

----------------------------------------------------------------------------
(* The status collector, monitoring/collector/server.py.  The main thread  *)
(* loads the persisted files, then serves.  HTTPServer (server.py:297)     *)
(* serves one request at a time; here handlers may overlap, as under a     *)
(* threading server, so that exclusion rests on status_lock alone.         *)

Requests ==
    {"GET /health", "GET /metrics", "GET /status", "GET /status/<host>",
     "GET /", "POST /status", "POST /status (not JSON)", "POST /other"}

\* How many `with status_lock` blocks serving a request goes through;
\* generate_metrics has one per metric family.
sections(req) ==
    CASE req = "GET /metrics" -> 5
      [] req \in {"GET /status", "GET /status/<host>", "GET /", "POST /status", "load"} -> 1
      [] OTHER -> 0

\* The requests whose block assigns status_store[hostname].
writes(req) == req \in {"POST /status", "load"}

\* Where a thread goes when its last block is left.
after_store(req) ==
    CASE req = "POST /status" -> "persist"
      [] req = "load" -> "load"
      [] OTHER -> "respond"

\* A request arrives and a handler starts on it.
Request(t) ==
    /\ thread[Main].pc = "serve"
    /\ thread[t].pc = "idle"
    /\ \E req \in Requests, h \in Hosts, d \in Reports :
          thread' = [thread EXCEPT ![t] =
                       [pc |-> IF sections(req) > 0 THEN "lock" ELSE "respond",
                        req |-> req,
                        left |-> sections(req),
                        host |-> IF req \in {"GET /status/<host>", "POST /status"} THEN h ELSE 0,
                        data |-> IF req = "POST /status" THEN d ELSE 0,
                        todo |-> {}]]
    /\ UNCHANGED <<status_store, status_lock, data_dir, manifest_tool>>

\* Variant: the block is entered without taking the lock.
Acquire_unlocked(t) ==
    /\ thread[t].pc = "lock"
    /\ thread' = [thread EXCEPT ![t].pc = "store"]
    /\ UNCHANGED <<status_store, status_lock, data_dir, manifest_tool>>

\* `with status_lock:` blocks until the lock is free, then holds it.
Acquire(t) ==
    /\ thread[t].pc = "lock"
    /\ status_lock = Unlocked
    /\ status_lock' = t
    /\ thread' = [thread EXCEPT ![t].pc = "store"]
    /\ UNCHANGED <<status_store, data_dir, manifest_tool>>

\* The body of the block: the reads of status_store, or the assignment
\* status_store[hostname] = data.
Store(t) ==
    /\ thread[t].pc = "store"
    /\ status_store' = IF writes(thread[t].req)
                       THEN [status_store EXCEPT ![thread[t].host] = thread[t].data]
                       ELSE status_store
    /\ thread' = [thread EXCEPT ![t].pc = "unlock"]
    /\ UNCHANGED <<status_lock, data_dir, manifest_tool>>

\* The end of the block releases the lock, also when the body raised.
Release(t) ==
    /\ thread[t].pc = "unlock"
    /\ status_lock' = Unlocked
    /\ thread' = [thread EXCEPT
                    ![t].left = @ - 1,
                    ![t].pc = IF thread[t].left > 1 THEN "lock"
                              ELSE after_store(thread[t].req)]
    /\ UNCHANGED <<status_store, data_dir, manifest_tool>>

\* do_POST writes DATA_DIR/<hostname>.json after the block.
Persist(t) ==
    /\ thread[t].pc = "persist"
    /\ data_dir' = [data_dir EXCEPT ![thread[t].host] = thread[t].data]
    /\ thread' = [thread EXCEPT ![t].pc = "respond"]
    /\ UNCHANGED <<status_store, status_lock, manifest_tool>>

\* The response is sent and the handler returns.
Respond(t) ==
    /\ thread[t].pc = "respond"
    /\ thread' = [thread EXCEPT ![t] = Resting]
    /\ UNCHANGED <<status_store, status_lock, data_dir, manifest_tool>>

\* load_persisted_status: the next file of DATA_DIR, in glob's order.
LoadNext ==
    /\ thread[Main].pc = "load"
    /\ \E h \in thread[Main].todo :
          thread' = [thread EXCEPT ![Main] =
                       [pc |-> "lock", req |-> "load", left |-> 1, host |-> h,
                        data |-> data_dir[h], todo |-> thread[Main].todo \ {h}]]
    /\ UNCHANGED <<status_store, status_lock, data_dir, manifest_tool>>

\* Every file is loaded: serve_forever.
Serve ==
    /\ thread[Main].pc = "load"
    /\ thread[Main].todo = {}
    /\ thread' = [thread EXCEPT ![Main] = [Resting EXCEPT !.pc = "serve"]]
    /\ UNCHANGED <<status_store, status_lock, data_dir, manifest_tool>>

\* The collector starts over whatever DATA_DIR holds.
InitServer ==
    /\ file = Template
    /\ sys = [pkgs |-> {}, flatpaks |-> {}, groups |-> {}]
    /\ tools = [dnf |-> TRUE, flatpak |-> TRUE, groups |-> TRUE]
    /\ run = NoRun
    /\ now = 0
    /\ pending = [w \in Writers |-> Idle]
    /\ data_dir \in [Hosts -> {0} \cup Reports]
    /\ status_store = [h \in Hosts |-> 0]
    /\ status_lock = Unlocked
    /\ thread = [t \in Threads |->
                   IF t = Main
                   THEN [Resting EXCEPT !.pc = "load", !.req = "load",
                                        !.todo = {h \in Hosts : data_dir[h] # 0}]
                   ELSE Resting]

NextServer ==
    \/ LoadNext
    \/ Serve
    \/ \E t \in Handlers : Request(t)
    \/ \E t \in Threads : Acquire(t)
    \/ \E t \in Threads : Store(t)
    \/ \E t \in Threads : Release(t)
    \/ \E t \in Handlers : Persist(t)
    \/ \E t \in Handlers : Respond(t)

SpecServer == InitServer /\ [][NextServer]_vars

----------------------------------------------------------------------------
(* Properties.  observed is what get_system_state returns in the current   *)
(* state; no command changes the tools, and only apply changes sys.        *)

observed == get_system_state(sys, tools)

\* The identifiers handed to installer invocations of one tool.
passed(calls, tool) ==
    UNION {Range(calls[i].args) : i \in {j \in 1..Len(calls) : calls[j].tool = tool}}

\* C1: status reports missing = (system \cup optional) \ observed and
\* extra = observed \ (system \cup optional) \ excluded; an excluded
\* identifier is never reported as extra.
C1_StatusDrift ==
    run.cmd = "status" =>
        /\ run.missing = (file.system \cup file.optional) \ observed.packages
        /\ run.extra = (observed.packages \ (file.system \cup file.optional)) \ file.excluded
        /\ run.extra \cap file.excluded = {}

C1_Witness ==
    /\ run.cmd = "status"
    /\ run.missing # {}
    /\ \E p \in file.excluded :
          p \in observed.packages /\ p \notin file.system \cup file.optional

\* C2: the missing set and the extra set of one status run are disjoint.
C2_MissingExtraDisjoint ==
    run.cmd = "status" => run.missing \cap run.extra = {}

C2_Witness ==
    /\ run.cmd = "status"
    /\ run.missing # {}
    /\ run.extra # {}
    /\ file.system \cap file.optional # {}
    /\ file.excluded \cap file.optional # {}

\* C3: status exits 1 exactly when missing or missing_flatpaks is
\* non-empty, and 0 otherwise, whatever extra and extra_flatpaks are.
C3_StatusExit ==
    run.cmd = "status" =>
        /\ run.exit \in {0, 1}
        /\ run.exit = 1 <=> (run.missing # {} \/ run.missing_flatpaks # {})

C3_Witness ==
    /\ run.cmd = "status"
    /\ run.missing = {}
    /\ run.missing_flatpaks = {}
    /\ run.extra # {}
    /\ run.extra_flatpaks # {}
    /\ run.exit = 0

\* C4: with observed state, system and optional fixed, adding an identifier
\* to excluded.packages gives an extra set included in the one status
\* reported before, and the same missing set.
C4_ExclusionMonotone ==
    run.cmd = "status" =>
        \A p \in Pkgs :
            LET m == load_manifest(file, now)
                excluding == [m EXCEPT !.excluded = @ \cup {p}]
            IN  /\ status_extra(excluding, observed) \subseteq run.extra
                /\ status_missing(excluding, observed) = run.missing

C4_Witness ==
    /\ run.cmd = "status"
    /\ \E p \in run.extra :
          status_extra([file EXCEPT !.excluded = @ \cup {p}], observed) # run.extra
    /\ \E p \in Pkgs \ file.excluded : p \in file.system /\ p \in observed.packages

\* C5: pull computes new = observed \ (system \cup optional) \ excluded;
\* when new is non-empty the saved optional is the old optional \cup new;
\* pull adds no excluded identifier to optional.
C5_PullMerge ==
    [][run'.cmd = "pull" =>
        LET new == (observed.packages \ (file.system \cup file.optional)) \ file.excluded
        IN  /\ run'.new_packages = new
            /\ new # {} => (file'.exists /\ file'.optional = file.optional \cup new)
            /\ (file'.optional \ file.optional) \cap file.excluded = {}]_vars

C5_Witness ==
    /\ run.cmd = "pull"
    /\ run.new_packages # {}
    /\ run.new_packages \subseteq file.optional
    /\ \E p \in file.excluded : p \in observed.packages /\ p \notin file.optional

\* C6: after a pull the persisted system and optional sets include their
\* values before it.
C6_PullSuperset ==
    [][run'.cmd = "pull" =>
        /\ file.system \subseteq file'.system
        /\ file.optional \subseteq file'.optional]_vars

C6_Witness ==
    /\ run.cmd = "pull"
    /\ run.new_packages # {}
    /\ file.optional \ run.new_packages # {}
    /\ file.system # {}

\* C7: pull leaves packages.system, packages.groups and excluded.packages
\* as they were loaded.
C7_PullFrame ==
    [][run'.cmd = "pull" =>
        /\ file'.system = file.system
        /\ file'.groups = file.groups
        /\ file'.excluded = file.excluded]_vars

C7_Witness ==
    /\ run.cmd = "pull"
    /\ run.new_packages # {}
    /\ run.new_packages \cap file.system = {}
    /\ file.groups # {}
    /\ file.excluded # {}

\* C8: a non-dry-run apply hands to the package installer exactly
\* system \ observed, hence nothing that is only optional or only a group,
\* and hands to the flatpak installer only declared flatpaks.
C8_ApplyScope ==
    [][run'.cmd = "apply" =>
        /\ passed(run'.calls, "dnf") = file.system \ observed.packages
        /\ passed(run'.calls, "dnf") \cap ((file.optional \cup file.groups) \ file.system) = {}
        /\ passed(run'.calls, "flatpak") \subseteq file.flatpaks]_vars

C8_Witness ==
    /\ run.cmd = "apply"
    /\ passed(run.calls, "dnf") # {}
    /\ \E p \in file.optional \ file.system : p \notin sys.pkgs
    /\ \E g \in file.groups \ file.system : g \notin sys.pkgs

\* C9: after an apply whose invocations all succeeded and whose installed
\* identifiers are observed, a second apply computes empty missing and
\* missing_flatpaks sets and invokes no installer.
C9_ApplyIdempotent ==
    [][(/\ run.cmd = "apply"
        /\ ~run.failed
        /\ passed(run.calls, "dnf") \subseteq observed.packages
        /\ passed(run.calls, "flatpak") \subseteq observed.flatpaks
        /\ run'.cmd = "apply")
       => (/\ run'.missing = {}
           /\ run'.missing_flatpaks = {}
           /\ run'.calls = <<>>)]_vars

C9_Witness ==
    /\ run.cmd = "apply"
    /\ ~run.failed
    /\ passed(run.calls, "dnf") # {}
    /\ passed(run.calls, "flatpak") # {}
    /\ passed(run.calls, "dnf") \subseteq observed.packages
    /\ passed(run.calls, "flatpak") \subseteq observed.flatpaks

\* C10 as stated: what diff prints as its plan is exactly what an apply on
\* the same manifest and observed state hands to installer invocations,
\* and both compute the same missing sets.
C10_DryRunFidelity_Original ==
    [][(run.cmd = "diff" /\ run'.cmd = "apply") =>
        /\ passed(run'.calls, "dnf") = Range(run.printed_pkgs)
        /\ passed(run'.calls, "flatpak") = Range(run.printed_flatpaks)
        /\ run'.missing = run.missing
        /\ run'.missing_flatpaks = run.missing_flatpaks]_vars

\* C10 amended: diff and apply compute the same missing sets; what diff
\* prints is exactly what apply hands to installers when no invocation
\* fails, and includes what apply hands to them when one fails.
C10_DryRunFidelity ==
    [][(run.cmd = "diff" /\ run'.cmd = "apply") =>
        /\ run'.missing = run.missing
        /\ run'.missing_flatpaks = run.missing_flatpaks
        /\ Range(run.printed_pkgs) = run.missing
        /\ Range(run.printed_flatpaks) = run.missing_flatpaks
        /\ passed(run'.calls, "dnf") \subseteq Range(run.printed_pkgs)
        /\ passed(run'.calls, "flatpak") \subseteq Range(run.printed_flatpaks)
        /\ ~run'.failed =>
              /\ passed(run'.calls, "dnf") = Range(run.printed_pkgs)
              /\ passed(run'.calls, "flatpak") = Range(run.printed_flatpaks)]_vars

C10_Witness ==
    /\ run.cmd = "diff"
    /\ run.printed_pkgs # <<>>
    /\ run.printed_flatpaks # <<>>
    /\ run.calls = <<>>

\* C11: diff (apply in dry-run mode) makes no installer invocation and
\* leaves the system as it was, also when something is missing.
C11_DryRunInstallsNothing ==
    [][run'.cmd = "diff" => (run'.calls = <<>> /\ sys' = sys)]_vars

C11_Witness ==
    /\ run.cmd = "diff"
    /\ run.missing # {}
    /\ run.missing_flatpaks # {}
    /\ run.missing \cap sys.pkgs = {}
    /\ run.missing_flatpaks \cap sys.flatpaks = {}

\* The positions of a tool's invocations in a run.
calls_of(calls, tool) == {i \in 1..Len(calls) : calls[i].tool = tool}

\* C12 as stated: a non-dry-run apply makes exactly one package installer
\* invocation, for the whole missing set, when it is non-empty, and none
\* when it is empty; and exactly one flatpak installer invocation per
\* missing flatpak, each identifier once.
C12_InvocationCount_Original ==
    [][run'.cmd = "apply" =>
        LET missing == file.system \ observed.packages
            missing_flatpaks == file.flatpaks \ observed.flatpaks
            dnf == calls_of(run'.calls, "dnf")
            flatpak == calls_of(run'.calls, "flatpak")
        IN  /\ missing # {} => Cardinality(dnf) = 1
            /\ missing = {} => dnf = {}
            /\ \A i \in dnf : Range(run'.calls[i].args) = missing
            /\ Cardinality(flatpak) = Cardinality(missing_flatpaks)
            /\ \A f \in missing_flatpaks :
                  Cardinality({i \in flatpak : run'.calls[i].args = <<f>>}) = 1]_vars

\* C12 amended: the package part as stated; the flatpak part holds when no
\* invocation of the run fails; when one fails, every flatpak invocation
\* made is for one missing flatpak and no flatpak has two.
C12_InvocationCount ==
    [][run'.cmd = "apply" =>
        LET missing == file.system \ observed.packages
            missing_flatpaks == file.flatpaks \ observed.flatpaks
            dnf == calls_of(run'.calls, "dnf")
            flatpak == calls_of(run'.calls, "flatpak")
        IN  /\ missing # {} => Cardinality(dnf) = 1
            /\ missing = {} => dnf = {}
            /\ \A i \in dnf : Range(run'.calls[i].args) = missing
            /\ \A i \in flatpak : \E f \in missing_flatpaks : run'.calls[i].args = <<f>>
            /\ \A f \in missing_flatpaks :
                  Cardinality({i \in flatpak : run'.calls[i].args = <<f>>}) <= 1
            /\ ~run'.failed =>
                  /\ Cardinality(flatpak) = Cardinality(missing_flatpaks)
                  /\ \A f \in missing_flatpaks :
                        Cardinality({i \in flatpak : run'.calls[i].args = <<f>>}) = 1]_vars

C12_Witness ==
    /\ run.cmd = "apply"
    /\ ~run.failed
    /\ run.missing # {}
    /\ Cardinality(run.missing_flatpaks) >= 2
    /\ Cardinality(calls_of(run.calls, "dnf")) = 1
    /\ Cardinality(calls_of(run.calls, "flatpak")) = Cardinality(run.missing_flatpaks)

\* C13: when an installer invocation of apply returns non-zero, apply ends
\* with an error there: that invocation is the last one made, and what the
\* invocations before it installed, and nothing else, is added to the system.
C13_FailFast ==
    [][(run'.cmd = "apply" /\ run'.failed) =>
        LET n == Len(run'.calls)
            plan == apply_plan(file.system \ observed.packages,
                               file.flatpaks \ observed.flatpaks)
        IN  /\ run'.exit # 0
            /\ n >= 1
            /\ n <= Len(plan)
            /\ run'.calls = SubSeq(plan, 1, n)
            /\ Len(run'.rc) = n
            /\ \A i \in 1..n : run'.rc[i] # 0 <=> i = n
            /\ sys'.pkgs = sys.pkgs \cup passed(SubSeq(run'.calls, 1, n - 1), "dnf")
            /\ sys'.flatpaks = sys.flatpaks \cup passed(SubSeq(run'.calls, 1, n - 1), "flatpak")]_vars

C13_Witness ==
    /\ run.cmd = "apply"
    /\ run.failed
    /\ Len(run.calls) >= 2
    /\ Len(run.calls) < Cardinality(run.missing_flatpaks) + 1
    /\ passed(SubSeq(run.calls, 1, Len(run.calls) - 1), "dnf") # {}
    /\ passed(SubSeq(run.calls, 1, Len(run.calls) - 1), "dnf") \subseteq sys.pkgs

\* C14: for each of packages, groups and flatpaks, when its query tool is
\* absent or fails the snapshot has that set empty and a diagnostic has
\* been printed for it, the other sets are populated, and the command is
\* not aborted.
C14_ProbeDegrades ==
    run.cmd \in {"status", "pull"} =>
        /\ ~run.load_error
        /\ ~run.failed
        /\ observed.packages = (IF tools.dnf THEN sys.pkgs ELSE {})
        /\ observed.groups = (IF tools.groups THEN sys.groups ELSE {})
        /\ observed.flatpaks = (IF tools.flatpak THEN sys.flatpaks ELSE {})
        /\ ~tools.dnf => "packages" \in run.diagnostics
        /\ ~tools.groups => "groups" \in run.diagnostics
        /\ ~tools.flatpak => "flatpaks" \in run.diagnostics

\* C15: status, apply and diff leave the persisted manifest as it was:
\* every list, meta.updated, and whether the file exists at all.
C15_ReadOnlyCommands ==
    [][run'.cmd \in {"status", "apply", "diff"} => file' = file]_vars

C15_Witness ==
    /\ run.cmd = "status"
    /\ ~file.exists
    /\ run.extra # {}
    /\ now > file.updated

\* C16: pull writes the manifest when it added a package or a flatpak, and
\* a pull that added nothing writes nothing: the persisted manifest,
\* meta.updated included, is as before.
C16_PullWritesOnlyOnChange ==
    [][run'.cmd = "pull" =>
        IF run'.new_packages # {} \/ run'.new_flatpaks # {}
        THEN run'.saved
        ELSE ~run'.saved /\ file' = file]_vars

\* C17 as stated: pull computes new flatpaks = observed flatpaks \ declared
\* flatpak.packages \ excluded, and when that is non-empty flatpak.packages
\* becomes the old set \cup new; no declared flatpak is removed.
C17_PullFlatpaks_Original ==
    [][run'.cmd = "pull" =>
        LET new == (observed.flatpaks \ file.flatpaks) \ file.excluded
        IN  /\ run'.new_flatpaks = new
            /\ file'.flatpaks = file.flatpaks \cup new
            /\ file.flatpaks \subseteq file'.flatpaks]_vars

\* C17 amended: new flatpaks = observed flatpaks \ declared flatpak.packages,
\* whatever excluded.packages and the package lists hold; flatpak.packages
\* becomes the old set \cup new.
C17_PullFlatpaks ==
    [][run'.cmd = "pull" =>
        LET new == observed.flatpaks \ file.flatpaks
        IN  /\ run'.new_flatpaks = new
            /\ file'.flatpaks = file.flatpaks \cup new
            /\ file.flatpaks \subseteq file'.flatpaks]_vars

C17_Witness ==
    /\ run.cmd = "pull"
    /\ run.new_flatpaks # {}
    /\ run.new_flatpaks \cap file.excluded # {}
    /\ file.flatpaks \ run.new_flatpaks # {}
    /\ run.new_flatpaks \subseteq file.flatpaks
    /\ run.new_packages # {}

\* C18: every save sets meta.updated to the clock, and the value a save
\* stores is never earlier than the one the file held before it.
C18_UpdatedAdvances ==
    [][(run'.cmd = "pull" /\ run'.saved) =>
        /\ file'.exists
        /\ file'.updated = now
        /\ file'.updated >= file.updated]_vars

C18_Witness ==
    /\ run.cmd = "pull"
    /\ run.saved
    /\ file.system # {}
    /\ run.new_packages = {}
    /\ file.updated = now
    /\ now = MaxClock

\* C19: when a pull saves after another writer has saved, the persisted
\* manifest is exactly what that pull computed from what it had loaded;
\* the save goes through without error, and entries only the other writer
\* had put in the file are gone.
C19_LastWriterWins ==
    [][\A w \in Writers :
        (pending[w].active /\ ~pending'[w].active) =>
            /\ file'.exists
            /\ file'.system = pending[w].manifest.system
            /\ file'.optional = pending[w].manifest.optional
            /\ file'.groups = pending[w].manifest.groups
            /\ file'.flatpaks = pending[w].manifest.flatpaks
            /\ file'.excluded = pending[w].manifest.excluded
            /\ (file.system \ pending[w].manifest.system) \cap file'.system = {}
            /\ run'.cmd = "pull"
            /\ run'.saved
            /\ ~run'.failed
            /\ ~run'.load_error]_vars

C19_Witness ==
    \E w \in Writers :
        /\ pending[w].active
        /\ file.exists
        /\ file.system \ pending[w].manifest.system # {}
        /\ pending[w].manifest.optional \ file.optional # {}

\* C20: with a manifest file that does not parse, every command ends in
\* the load error: no drift set is computed, nothing is saved, no installer
\* is invoked, and the file and the system stay as they were.
C20_MalformedIsFatal ==
    [][(file.exists /\ ~file.parses) =>
        /\ file' = file
        /\ sys' = sys
        /\ run'.cmd \in {"status", "pull", "apply", "diff"}
        /\ run'.load_error
        /\ run'.exit # 0
        /\ ~run'.saved
        /\ run'.calls = <<>>
        /\ run'.missing = {} /\ run'.extra = {}
        /\ run'.missing_flatpaks = {} /\ run'.extra_flatpaks = {}
        /\ run'.new_packages = {} /\ run'.new_flatpaks = {}]_vars

C20_Witness ==
    /\ file.exists
    /\ ~file.parses
    /\ run.cmd = "pull"
    /\ run.load_error
    /\ sys.pkgs # {}
    /\ sys.flatpaks # {}

\* A thread is inside a `with status_lock` block.
in_block(t) == thread[t].pc \in {"store", "unlock"}

\* C21: every read and every write of status_store (the GET handlers, POST
\* /status, metrics and dashboard generation, the startup load) is made by
\* the thread holding status_lock, and no two threads are at the store at
\* the same time.
C21_StoreUnderLock ==
    /\ \A t \in Threads : in_block(t) => status_lock = t
    /\ \A t, u \in Threads : (in_block(t) /\ in_block(u)) => t = u

C21_Witness ==
    \E t, u \in Handlers :
        /\ thread[t].pc = "store"
        /\ thread[t].req = "POST /status"
        /\ thread[u].pc = "lock"
        /\ thread[u].req = "GET /metrics"
        /\ thread[u].left < 5
        /\ \E h \in Hosts : status_store[h] # 0

\* C22: pull does not change what status reports as missing: the missing
\* and missing_flatpaks sets, and the exit code, that status computes from
\* the manifest pull has saved are those of the status run before the pull.
C22_PullKeepsMissing ==
    [][(run.cmd = "status" /\ run'.cmd = "pull") =>
        LET missing == (file'.system \cup file'.optional) \ observed.packages
            missing_flatpaks == file'.flatpaks \ observed.flatpaks
        IN  /\ missing = run.missing
            /\ missing_flatpaks = run.missing_flatpaks
            /\ (IF missing # {} \/ missing_flatpaks # {} THEN 1 ELSE 0) = run.exit]_vars

C22_Witness ==
    /\ run.cmd = "pull"
    /\ run.new_packages # {}
    /\ run.new_flatpaks # {}
    /\ (file.system \cup file.optional) \ observed.packages # {}
    /\ file.flatpaks \ observed.flatpaks # {}

\* C23: with the system as it was, a status after a pull computes empty
\* extra and extra_flatpaks sets, and a second pull finds nothing new and
\* leaves packages.optional and flatpak.packages as they are.
C23_PullThenClean ==
    [][run.cmd = "pull" =>
        /\ run'.cmd = "status" =>
              (run'.extra = {} /\ run'.extra_flatpaks = {})
        /\ run'.cmd = "pull" =>
              /\ run'.new_packages = {}
              /\ run'.new_flatpaks = {}
              /\ file'.optional = file.optional
              /\ file'.flatpaks = file.flatpaks]_vars

C23_Witness ==
    /\ run.cmd = "pull"
    /\ run.new_packages # {}
    /\ run.new_flatpaks # {}
    /\ \E p \in file.excluded :
          p \in observed.packages /\ p \notin file.system \cup file.optional

\* C24: status prints the "System matches manifest" verdict only when the
\* missing, extra, missing_flatpaks and extra_flatpaks sets are all empty;
\* no run prints a drift section and the verdict.
C24_VerdictMeansNoDrift ==
    (run.cmd = "status" /\ run.matches) =>
        /\ run.missing = {}
        /\ run.extra = {}
        /\ run.missing_flatpaks = {}
        /\ run.extra_flatpaks = {}

\* C25: in a non-dry-run apply the package installer invocation precedes
\* every flatpak installer invocation, the flatpak invocations are in
\* ascending order of identifier, and when the package installer
\* invocation fails no flatpak installer invocation is made.
C25_InvocationOrder ==
    [][run'.cmd = "apply" =>
        LET dnf == calls_of(run'.calls, "dnf")
            flatpak == calls_of(run'.calls, "flatpak")
        IN  /\ \A i \in dnf : \A j \in flatpak : i < j
            /\ \A i, j \in flatpak :
                  i < j => run'.calls[i].args[1] < run'.calls[j].args[1]
            /\ (\E i \in dnf : run'.rc[i] # 0) => flatpak = {}]_vars

C25_Witness ==
    /\ run.cmd = "apply"
    /\ ~run.failed
    /\ calls_of(run.calls, "dnf") = {1}
    /\ Len(run.calls) >= 3
    /\ run.calls[2].args[1] < run.calls[3].args[1]
    /\ Range(run.calls[1].args) \subseteq sys.pkgs

====
